---- MODULE Spec2Model ----
(***************************************************************************)
(* Model of nemoguardrails/colang/v2_x/runtime/eval.py: eval_expression,   *)
(* ComparisonExpression and the function library handed to the evaluator.  *)
(*                                                                         *)
(* A text is a sequence of one-character strings.  A Python value is a     *)
(* record [t |-> type tag, v |-> payload]; the tags are "none", "bool",    *)
(* "int", "float" (integer-valued floats: v = 3 stands for 3.0), "str",    *)
(* "list", "dict", "func" (a library function object), "cmp" (a            *)
(* ComparisonExpression) and "method" (a bound method).                    *)
(***************************************************************************)
EXTENDS Integers, Sequences, FiniteSets, TLC

(***************************************************************************)
(* Characters                                                              *)
(***************************************************************************)
DQ == "\""
SQ == "'"
BS == "\\"
LB == "{"
RB == "}"
SIGIL == "$"

Lower == {"a","b","c","d","e","f","g","h","i","j","k","l","m",
          "n","o","p","q","r","s","t","u","v","w","x","y","z"}
Upper == {"A","B","C","D","E","F","G","H","I","J","K","L","M",
          "N","O","P","Q","R","S","T","U","V","W","X","Y","Z"}
Digits == {"0","1","2","3","4","5","6","7","8","9"}
\* [a-zA-Z_] and [a-zA-Z0-9_] of regex_pattern
IdentStart == Lower \cup Upper \cup {"_"}
IdentChar == IdentStart \cup Digits

\* A marker for a piece of text the model does not compute (the repr of a
\* dict, of an object, ...); ModelDomain states that no reachable text holds it.
UNK == "<?>"

Min(a, b) == IF a < b THEN a ELSE b

SubText(t, a, b) == IF a > b THEN <<>> ELSE SubSeq(t, a, b)

RECURSIVE Concat(_)
Concat(ss) == IF ss = <<>> THEN <<>> ELSE Head(ss) \o Concat(Tail(ss))

StartsWithAt(t, i, pat) ==
    /\ i + Len(pat) - 1 <= Len(t)
    /\ \A k \in 1..Len(pat) : t[i + k - 1] = pat[k]

\* str.replace(old, new): leftmost non-overlapping occurrences
RECURSIVE ReplaceFrom(_, _, _, _)
ReplaceFrom(t, i, old, new) ==
    IF i > Len(t) THEN <<>>
    ELSE IF StartsWithAt(t, i, old)
         THEN new \o ReplaceFrom(t, i + Len(old), old, new)
         ELSE <<t[i]>> \o ReplaceFrom(t, i + 1, old, new)

Replace(t, old, new) == ReplaceFrom(t, 1, old, new)

\* string_pattern: a double-quoted or a single-quoted literal, lazily matched.
\* CloseQuote gives the position of the closing quote of a literal whose
\* body starts at p, 0 when the pattern does not match.  The lazy star
\* first tries to close, then to take backslash-quote as one unit, then to
\* take one character that is not the quote; a failed backslash-quote unit
\* backtracks to taking the backslash alone, after which the quote closes
\* the literal.
RECURSIVE CloseQuote(_, _, _)
CloseQuote(t, p, q) ==
    IF p > Len(t) THEN 0
    ELSE IF t[p] = q THEN p
    ELSE IF t[p] = BS /\ p + 1 <= Len(t) /\ t[p + 1] = q
         THEN LET r == CloseQuote(t, p + 2, q)
              IN  IF r # 0 THEN r ELSE p + 1
         ELSE CloseQuote(t, p + 1, q)

\* the spans re.findall(string_pattern, expr) / re.sub(string_pattern, ...) visit
RECURSIVE StringSpansFrom(_, _)
StringSpansFrom(t, i) ==
    IF i > Len(t) THEN <<>>
    ELSE IF t[i] \in {DQ, SQ}
         THEN LET r == CloseQuote(t, i + 1, t[i])
              IN  IF r # 0 THEN <<[s |-> i, e |-> r]>> \o StringSpansFrom(t, r + 1)
                  ELSE StringSpansFrom(t, i + 1)
         ELSE StringSpansFrom(t, i + 1)

string_pattern_spans(t) == StringSpansFrom(t, 1)

\* expression_pattern: an opening brace not followed by an opening brace, one
\* or more non-brace characters (the group), a closing brace not followed by
\* a closing brace.
RECURSIVE RunEnd(_, _)
\* last position of the longest run of non-brace characters starting at j
RunEnd(t, j) ==
    IF j > Len(t) \/ t[j] \in {LB, RB} THEN j - 1 ELSE RunEnd(t, j + 1)

SiteAt(t, i) ==
    LET k == RunEnd(t, i + 1)
    IN  /\ t[i] = LB
        /\ ~(i + 1 <= Len(t) /\ t[i + 1] = LB)
        /\ k >= i + 1
        /\ k + 1 <= Len(t) /\ t[k + 1] = RB
        /\ ~(k + 2 <= Len(t) /\ t[k + 2] = RB)

RECURSIVE SiteSpansFrom(_, _)
SiteSpansFrom(t, i) ==
    IF i > Len(t) THEN <<>>
    ELSE IF SiteAt(t, i)
         THEN LET k == RunEnd(t, i + 1)
              IN  <<[s |-> i, e |-> k + 1]>> \o SiteSpansFrom(t, k + 2)
         ELSE SiteSpansFrom(t, i + 1)

expression_pattern_spans(t) == SiteSpansFrom(t, 1)

\* regex_pattern: the sigil, then an identifier (the group).
RECURSIVE IdentEnd(_, _)
IdentEnd(t, j) ==
    IF j > Len(t) \/ t[j] \notin IdentChar THEN j - 1 ELSE IdentEnd(t, j + 1)

RECURSIVE VarSpansFrom(_, _)
VarSpansFrom(t, i) ==
    IF i > Len(t) THEN <<>>
    ELSE IF t[i] = SIGIL /\ i + 1 <= Len(t) /\ t[i + 1] \in IdentStart
         THEN LET k == IdentEnd(t, i + 1)
              IN  <<[s |-> i, e |-> k]>> \o VarSpansFrom(t, k + 1)
         ELSE VarSpansFrom(t, i + 1)

regex_pattern_spans(t) == VarSpansFrom(t, 1)

\* re.findall(expression_pattern, s): the text between the braces of every site
SiteGroups(t, spans) == [k \in 1..Len(spans) |-> SubText(t, spans[k].s + 1, spans[k].e - 1)]
\* re.findall(regex_pattern, expr): the identifier after the sigil of every match
VarGroups(t, spans) == [k \in 1..Len(spans) |-> SubText(t, spans[k].s + 1, spans[k].e)]
\* the whole text of every match
Matches(t, spans) == [k \in 1..Len(spans) |-> SubText(t, spans[k].s, spans[k].e)]

\* re.sub(pattern, f, t): the k-th match replaced by repl[k], the rest kept
RECURSIVE SubFrom(_, _, _, _, _)
SubFrom(t, spans, repl, k, pos) ==
    IF k > Len(spans) THEN SubText(t, pos, Len(t))
    ELSE SubText(t, pos, spans[k].s - 1) \o repl[k]
         \o SubFrom(t, spans, repl, k + 1, spans[k].e + 1)

re_sub(t, spans, repl) == SubFrom(t, spans, repl, 1, 1)

(***************************************************************************)
(* Python values                                                           *)
(***************************************************************************)
NoneV == [t |-> "none", v |-> 0]
BoolV(b) == [t |-> "bool", v |-> b]
IntV(n) == [t |-> "int", v |-> n]
FloatV(n) == [t |-> "float", v |-> n]
StrV(s) == [t |-> "str", v |-> s]
ListV(l) == [t |-> "list", v |-> l]
DictV(d) == [t |-> "dict", v |-> d]
\* AttributeDict(val): a new dict with val's items, whose keys read as attributes
AttributeDict(val) == [t |-> "attrdict", v |-> val.v]
FuncV(name) == [t |-> "func", v |-> name]

\* bool is a subclass of int: True is 1 and False is 0 in arithmetic
IsNum(val) == val.t \in {"bool", "int", "float"}
NumOf(val) == IF val.t = "bool" THEN (IF val.v THEN 1 ELSE 0) ELSE val.v

\* Python truth value
Truthy(val) ==
    CASE val.t = "none" -> FALSE
      [] val.t = "bool" -> val.v
      [] val.t \in {"int", "float"} -> val.v # 0
      [] val.t \in {"str", "list"} -> val.v # <<>>
      [] val.t \in {"dict", "attrdict"} -> DOMAIN val.v # {}
      [] OTHER -> TRUE

DigitChar(d) ==
    CASE d = 0 -> "0" [] d = 1 -> "1" [] d = 2 -> "2" [] d = 3 -> "3" [] d = 4 -> "4"
      [] d = 5 -> "5" [] d = 6 -> "6" [] d = 7 -> "7" [] d = 8 -> "8" [] d = 9 -> "9"

DigitVal(c) ==
    CASE c = "0" -> 0 [] c = "1" -> 1 [] c = "2" -> 2 [] c = "3" -> 3 [] c = "4" -> 4
      [] c = "5" -> 5 [] c = "6" -> 6 [] c = "7" -> 7 [] c = "8" -> 8 [] c = "9" -> 9

RECURSIVE NatText(_)
NatText(n) == IF n < 10 THEN <<DigitChar(n)>> ELSE NatText(n \div 10) \o <<DigitChar(n % 10)>>

IntText(n) == IF n < 0 THEN <<"-">> \o NatText(0 - n) ELSE NatText(n)

RECURSIVE TextNat(_)
TextNat(t) == IF t = <<>> THEN 0 ELSE 10 * TextNat(SubText(t, 1, Len(t) - 1)) + DigitVal(t[Len(t)])

\* str(value); the elements of a list are shown by repr, which is str for numbers
RECURSIVE to_text(_)
RECURSIVE ListText(_)
ListText(l) ==
    IF l = <<>> THEN <<>>
    ELSE (IF Head(l).t \in {"none", "bool", "int", "float"} THEN to_text(Head(l)) ELSE <<UNK>>)
         \o (IF Len(l) > 1 THEN <<",", " ">> ELSE <<>>) \o ListText(Tail(l))

to_text(val) ==
    CASE val.t = "none" -> <<"N","o","n","e">>
      [] val.t = "bool" -> IF val.v THEN <<"T","r","u","e">> ELSE <<"F","a","l","s","e">>
      [] val.t = "int" -> IntText(val.v)
      [] val.t = "float" -> IntText(val.v) \o <<".", "0">>
      [] val.t = "str" -> val.v
      [] val.t = "list" -> <<"[">> \o ListText(val.v) \o <<"]">>
      [] OTHER -> <<UNK>>

(***************************************************************************)
(* ComparisonExpression                                                    *)
(***************************************************************************)
\* isinstance(value, T) for the classes bool, int and float
IsInstance(val, T) ==
    CASE T = "int" -> val.t \in {"int", "bool"}
      [] T = "float" -> val.t = "float"
      [] T = "bool" -> val.t = "bool"
      [] OTHER -> FALSE

ComparisonOperators ==
    {"LESS_THAN", "EQUAL_LESS_THAN", "GREATER_THAN", "EQUAL_GREATER_THAN", "NOT_EQUAL_TO"}

\* the lambdas of the five constructors, applied to val with reference v_ref
Operator(op, val, v_ref) ==
    CASE op = "LESS_THAN" -> NumOf(val) < NumOf(v_ref)
      [] op = "EQUAL_LESS_THAN" -> NumOf(val) <= NumOf(v_ref)
      [] op = "GREATER_THAN" -> NumOf(val) > NumOf(v_ref)
      [] op = "EQUAL_GREATER_THAN" -> NumOf(val) >= NumOf(v_ref)
      [] op = "NOT_EQUAL_TO" -> NumOf(val) # NumOf(v_ref)

\* An outcome of a call: ok with a value, or err (an exception was raised)
Ok(val) == [ok |-> TRUE, val |-> val]
Err == [ok |-> FALSE, val |-> NoneV]

\* ComparisonExpression.__init__: the reference must be an int or a float
ComparisonExpression(op, value) ==
    IF ~(IsInstance(value, "int") \/ IsInstance(value, "float")) THEN Err
    ELSE Ok([t |-> "cmp", v |-> [op |-> op, ref |-> value]])

\* the type check of compare
SameType(value, ref) == IsInstance(value, ref.t)

\* ComparisonExpression.compare
compare(self, value) ==
    IF ~SameType(value, self.v.ref) THEN Err
    ELSE Ok(BoolV(Operator(self.v.op, value, self.v.ref)))

(***************************************************************************)
(* The function library                                                    *)
(***************************************************************************)
\* the keys of the dict `functions` handed to EvalWithCompoundTypes
functions ==
    {"len", "flow", "action", "regex", "search", "findall", "uid", "str", "escape",
     "isint", "isfloat", "isbool", "isstr"} \cup ComparisonOperators

_escape_string(s) ==
    Replace(Replace(Replace(s, <<BS>>, <<BS, BS>>), <<LB, LB>>, <<BS, LB>>), <<RB, RB>>, <<BS, RB>>)

_is_int(val) == IsInstance(val, "int")
_is_float(val) == val.t = "float"
_is_bool(val) == val.t = "bool"
_is_str(val) == val.t = "str"

\* The library functions the model computes; the others (flow, action, regex,
\* search, findall, uid) belong to the host runtime or to the regex engine.
Computed == functions \ {"flow", "action", "regex", "search", "findall", "uid"}

\* the callables that EvalWithCompoundTypes adds, when it is constructed (line
\* 150), to the dict it is handed
CompoundTypes == {"list", "tuple", "dict", "set"}

\* the functions of the evaluator of lines 150-154: a called name and a bare
\* name that is no binding are both looked up in this dict
EvaluatorFunctions == functions \cup CompoundTypes

\* the calls of list and dict the model computes: list of no argument, of a
\* string, of a list and of a value that cannot be iterated, and dict()
ComputedCompound(name, args) ==
    \/ name = "list" /\ (Len(args) # 1
                         \/ args[1].t \in {"none", "bool", "int", "float", "str", "list"})
    \/ name = "dict" /\ args = <<>>

\* list(*args) and dict()
ApplyCompound(name, args) ==
    IF name = "dict" THEN Ok(DictV([n \in {} |-> NoneV]))
    ELSE IF args = <<>> THEN Ok(ListV(<<>>))
    ELSE IF Len(args) # 1 THEN Err
    ELSE IF args[1].t = "str"
    THEN Ok(ListV([k \in 1..Len(args[1].v) |-> StrV(<<args[1].v[k]>>)]))
    ELSE IF args[1].t = "list" THEN Ok(ListV(args[1].v))
    ELSE Err

\* functions[name](*args)
Apply(name, args) ==
    IF Len(args) # 1 THEN Err
    ELSE LET a == args[1] IN
         CASE name = "len" ->
                  IF a.t \in {"str", "list"} THEN Ok(IntV(Len(a.v)))
                  ELSE IF a.t \in {"dict", "attrdict"} THEN Ok(IntV(Cardinality(DOMAIN a.v)))
                  ELSE Err
           [] name = "str" -> Ok(StrV(to_text(a)))
           [] name = "escape" -> IF a.t = "str" THEN Ok(StrV(_escape_string(a.v))) ELSE Err
           [] name = "isint" -> Ok(BoolV(_is_int(a)))
           [] name = "isfloat" -> Ok(BoolV(_is_float(a)))
           [] name = "isbool" -> Ok(BoolV(_is_bool(a)))
           [] name = "isstr" -> Ok(BoolV(_is_str(a)))
           [] name \in ComparisonOperators -> ComparisonExpression(name, a)
           [] OTHER -> Err

(***************************************************************************)
(* The evaluator, s.eval(updated_expr): the text is parsed as one Python   *)
(* expression and the tree is evaluated.  The model covers the grammar     *)
(*   or_test := and_test ("or" and_test)*                                  *)
(*   and_test := arith ("and" arith)*                                      *)
(*   arith := term ("+" term)*          term := postfix ("*" postfix)*     *)
(*   postfix := atom ("." NAME | "(" [or_test ("," or_test)*] ")")*        *)
(*   atom := INT | FLOAT | STRING+ | NAME | True | False | None            *)
(*           | "(" or_test ")"                                             *)
(* and answers "unm" for the Python it does not cover; ModelDomain states  *)
(* that no reachable evaluation meets such text.                           *)
(***************************************************************************)
RECURSIVE Str(_)
\* the string of a text
Str(t) == IF t = <<>> THEN "" ELSE Head(t) \o Str(Tail(t))

StringPrefixes ==
    {"r","R","u","U","b","B","f","F","t","T",
     "br","bR","Br","BR","rb","rB","Rb","RB",
     "fr","fR","Fr","FR","rf","rF","Rf","RF",
     "tr","tR","Tr","TR","rt","rT","Rt","RT"}

OtherKeywords ==
    {"as","assert","async","await","break","class","continue","def","del","elif",
     "else","except","finally","for","from","global","if","import","in","is",
     "lambda","nonlocal","not","pass","raise","return","try","while","with","yield"}

\* the character an escape sequence \c of a string literal stands for
EscapeOf(c) ==
    CASE c \in {BS, SQ, DQ} -> <<c>>
      [] c = "a" -> <<"<BEL>">>
      [] c = "b" -> <<"<BS>">>
      [] c = "f" -> <<"<FF>">>
      [] c = "n" -> <<"<LF>">>
      [] c = "r" -> <<"<CR>">>
      [] c = "t" -> <<"<TAB>">>
      [] c = "v" -> <<"<VT>">>
      [] c \in {"0","1","2","3","4","5","6","7","x","N","u","U"} -> <<UNK>>
      [] OTHER -> <<BS, c>>

RECURSIVE Unescape(_)
Unescape(b) ==
    IF b = <<>> THEN <<>>
    ELSE IF b[1] = BS /\ Len(b) >= 2 THEN EscapeOf(b[2]) \o Unescape(SubText(b, 3, Len(b)))
    ELSE <<b[1]>> \o Unescape(Tail(b))

RECURSIVE ScanString(_, _, _)
\* the position of the quote that ends a literal whose body starts at p; 0 if none
ScanString(t, p, q) ==
    IF p > Len(t) THEN 0
    ELSE IF t[p] = q THEN p
    ELSE IF t[p] = BS THEN (IF p + 1 > Len(t) THEN 0 ELSE ScanString(t, p + 2, q))
    ELSE ScanString(t, p + 1, q)

RECURSIVE DigitsEnd(_, _)
DigitsEnd(t, j) == IF j > Len(t) \/ t[j] \notin Digits THEN j - 1 ELSE DigitsEnd(t, j + 1)

Tk(k, v) == [k |-> k, v |-> v]

CharAt(t, i) == IF i >= 1 /\ i <= Len(t) THEN t[i] ELSE ""

\* the token that starts at i, and the position after it
TokenAt(t, i) ==
    LET c == t[i] IN
    CASE c \in {DQ, SQ} ->
           IF StartsWithAt(t, i, <<c, c, c>>) THEN [tok |-> Tk("unm", ""), nxt |-> Len(t) + 1]
           ELSE LET r == ScanString(t, i + 1, c) IN
                IF r = 0 THEN [tok |-> Tk("err", ""), nxt |-> Len(t) + 1]
                ELSE LET body == Unescape(SubText(t, i + 1, r - 1)) IN
                     IF (\E k \in 1..Len(body) : body[k] = UNK)
                        \/ (\E j \in (i + 1)..(r - 1) : t[j] \in {"<LF>", "<CR>"})
                     THEN [tok |-> Tk("unm", ""), nxt |-> r + 1]
                     ELSE [tok |-> Tk("str", body), nxt |-> r + 1]
      [] c \in Digits ->
           LET k == DigitsEnd(t, i) IN
           IF CharAt(t, k + 1) \in IdentStart \/ (k > i /\ c = "0")
           THEN [tok |-> Tk("unm", ""), nxt |-> k + 1]
           ELSE IF CharAt(t, k + 1) = "."
           THEN LET m == DigitsEnd(t, k + 2) IN
                IF m < k + 2 \/ CharAt(t, m + 1) \in IdentStart \cup {"."}
                   \/ \E j \in (k + 2)..m : t[j] # "0"
                THEN [tok |-> Tk("unm", ""), nxt |-> k + 2]
                ELSE [tok |-> Tk("float", TextNat(SubText(t, i, k))), nxt |-> m + 1]
           ELSE [tok |-> Tk("num", TextNat(SubText(t, i, k))), nxt |-> k + 1]
      [] c \in IdentStart ->
           LET k == IdentEnd(t, i)
               w == Str(SubText(t, i, k)) IN
           IF (CharAt(t, k + 1) \in {DQ, SQ} /\ w \in StringPrefixes) \/ w \in OtherKeywords
           THEN [tok |-> Tk("unm", ""), nxt |-> k + 1]
           ELSE IF w \in {"and", "or"} THEN [tok |-> Tk("kw", w), nxt |-> k + 1]
           ELSE IF w \in {"True", "False", "None"} THEN [tok |-> Tk("const", w), nxt |-> k + 1]
           ELSE [tok |-> [k |-> "name", v |-> w,
                          priv |-> t[i] = "_" \/ StartsWithAt(t, i, <<"f","u","n","c","_">>)],
                 nxt |-> k + 1]
      [] c \in {"(", ")", ",", LB, RB} -> [tok |-> Tk("op", c), nxt |-> i + 1]
      [] c = "+" -> [tok |-> Tk("op", c), nxt |-> i + 1]
      [] c = "*" ->
           IF CharAt(t, i + 1) = "*" THEN [tok |-> Tk("unm", ""), nxt |-> i + 2]
           ELSE [tok |-> Tk("op", c), nxt |-> i + 1]
      [] c = "." ->
           IF CharAt(t, i + 1) \in Digits \cup {"."} THEN [tok |-> Tk("unm", ""), nxt |-> i + 1]
           ELSE [tok |-> Tk("op", c), nxt |-> i + 1]
      [] c \in {SIGIL, BS} -> [tok |-> Tk("err", ""), nxt |-> i + 1]
      [] OTHER -> [tok |-> Tk("unm", ""), nxt |-> i + 1]

RECURSIVE CommentEnd(_, _)
\* a comment runs to the next line break, or to the end of the text
CommentEnd(t, j) ==
    IF j > Len(t) \/ t[j] \in {"<LF>", "<CR>"} THEN j ELSE CommentEnd(t, j + 1)

RECURSIVE Tokenize(_, _)
\* the tokens from position i; a line break outside a string literal is a
\* token outside the model (TokenAt), also when it ends a comment
Tokenize(t, i) ==
    IF i > Len(t) THEN <<>>
    ELSE IF t[i] = " " THEN Tokenize(t, i + 1)
    ELSE IF t[i] = "#"
    THEN IF \E j \in i..(CommentEnd(t, i) - 1) : t[j] = UNK THEN <<Tk("unm", "")>>
         ELSE Tokenize(t, CommentEnd(t, i))
    ELSE LET r == TokenAt(t, i) IN <<r.tok>> \o Tokenize(t, r.nxt)

EOF == Tk("eof", "")
Tok(toks, i) == IF i <= Len(toks) THEN toks[i] ELSE EOF
IsOp(tok, c) == tok.k = "op" /\ tok.v = c
IsKw(tok, w) == tok.k = "kw" /\ tok.v = w

\* parse results: st is "ok", "err" (a SyntaxError) or "unm"
POk(node, i) == [st |-> "ok", node |-> node, i |-> i]
PFail(st) == [st |-> st, node |-> [n |-> "none"], i |-> 0]

ConstOf(w) == CASE w = "True" -> BoolV(TRUE) [] w = "False" -> BoolV(FALSE) [] w = "None" -> NoneV

RECURSIVE StrRun(_, _)
\* adjacent string literals are one string
StrRun(toks, i) ==
    IF Tok(toks, i).k = "str"
    THEN LET r == StrRun(toks, i + 1) IN [s |-> Tok(toks, i).v \o r.s, i |-> r.i]
    ELSE [s |-> <<>>, i |-> i]

RECURSIVE ParseOr(_, _)
RECURSIVE ParseOrRest(_, _)
RECURSIVE ParseAnd(_, _)
RECURSIVE ParseAndRest(_, _)
RECURSIVE ParseArith(_, _)
RECURSIVE ParseArithRest(_, _)
RECURSIVE ParseTerm(_, _)
RECURSIVE ParseTermRest(_, _)
RECURSIVE ParsePostfix(_, _)
RECURSIVE ParseArgs(_, _, _)
RECURSIVE ParseAtom(_, _)

\* the token after a parenthesised expression r
ClosingParen(toks, r) ==
    IF r.st # "ok" THEN r
    ELSE IF IsOp(Tok(toks, r.i), ")") THEN POk(r.node, r.i + 1)
    ELSE IF IsOp(Tok(toks, r.i), ",") THEN PFail("unm")
    ELSE PFail("err")

ParseAtom(toks, i) ==
    LET tok == Tok(toks, i) IN
    CASE tok.k = "num" -> POk([n |-> "const", val |-> IntV(tok.v)], i + 1)
      [] tok.k = "float" -> POk([n |-> "const", val |-> FloatV(tok.v)], i + 1)
      [] tok.k = "str" -> POk([n |-> "const", val |-> StrV(StrRun(toks, i).s)], StrRun(toks, i).i)
      [] tok.k = "const" -> POk([n |-> "const", val |-> ConstOf(tok.v)], i + 1)
      [] tok.k = "name" -> POk([n |-> "name", id |-> tok.v], i + 1)
      [] IsOp(tok, "(") ->
           IF IsOp(Tok(toks, i + 1), ")") THEN PFail("unm")
           ELSE ClosingParen(toks, ParseOr(toks, i + 1))
      [] IsOp(tok, LB) \/ IsOp(tok, "+") \/ IsOp(tok, "*") -> PFail("unm")
      [] OTHER -> PFail("err")

\* the token after the argument r of a call whose earlier arguments are args
NextArg(toks, args, r) ==
    IF r.st # "ok" THEN [st |-> r.st, args |-> <<>>, i |-> 0]
    ELSE IF IsOp(Tok(toks, r.i), ",") THEN ParseArgs(toks, r.i + 1, Append(args, r.node))
    ELSE IF IsOp(Tok(toks, r.i), ")")
         THEN [st |-> "ok", args |-> Append(args, r.node), i |-> r.i + 1]
    ELSE [st |-> "err", args |-> <<>>, i |-> 0]

\* the arguments of a call, from the token after "(" or after a ","
ParseArgs(toks, i, args) ==
    IF IsOp(Tok(toks, i), ")") THEN [st |-> "ok", args |-> args, i |-> i + 1]
    ELSE NextArg(toks, args, ParseOr(toks, i))

\* the call of f with the parsed arguments a
CallOf(f, a) ==
    IF a.st # "ok" THEN PFail(a.st)
    ELSE POk([n |-> "call", f |-> f, args |-> a.args], a.i)

\* the attribute accesses and calls that follow the parsed expression r
ParsePostfix(toks, r) ==
    IF r.st # "ok" THEN r
    ELSE IF IsOp(Tok(toks, r.i), ".")
    THEN IF Tok(toks, r.i + 1).k = "name"
         THEN ParsePostfix(toks, POk([n |-> "attr", obj |-> r.node, attr |-> Tok(toks, r.i + 1).v,
                                      priv |-> Tok(toks, r.i + 1).priv], r.i + 2))
         ELSE PFail("err")
    ELSE IF IsOp(Tok(toks, r.i), "(")
    THEN ParsePostfix(toks, CallOf(r.node, ParseArgs(toks, r.i + 1, <<>>)))
    ELSE r

\* the binary node of the parsed operands left and r
Joined(kind, op, left, r) ==
    IF r.st # "ok" THEN r
    ELSE POk([n |-> kind, op |-> op, l |-> left.node, r |-> r.node], r.i)

\* the factors that follow the parsed expression left
ParseTermRest(toks, left) ==
    IF left.st # "ok" THEN left
    ELSE IF IsOp(Tok(toks, left.i), "*")
    THEN ParseTermRest(toks, Joined("bin", "*", left,
                                    ParsePostfix(toks, ParseAtom(toks, left.i + 1))))
    ELSE left

ParseTerm(toks, i) == ParseTermRest(toks, ParsePostfix(toks, ParseAtom(toks, i)))

ParseArithRest(toks, left) ==
    IF left.st # "ok" THEN left
    ELSE IF IsOp(Tok(toks, left.i), "+")
    THEN ParseArithRest(toks, Joined("bin", "+", left, ParseTerm(toks, left.i + 1)))
    ELSE left

ParseArith(toks, i) == ParseArithRest(toks, ParseTerm(toks, i))

ParseAndRest(toks, left) ==
    IF left.st # "ok" THEN left
    ELSE IF IsKw(Tok(toks, left.i), "and")
    THEN ParseAndRest(toks, Joined("bool", "and", left, ParseArith(toks, left.i + 1)))
    ELSE left

ParseAnd(toks, i) == ParseAndRest(toks, ParseArith(toks, i))

ParseOrRest(toks, left) ==
    IF left.st # "ok" THEN left
    ELSE IF IsKw(Tok(toks, left.i), "or")
    THEN ParseOrRest(toks, Joined("bool", "or", left, ParseAnd(toks, left.i + 1)))
    ELSE left

ParseOr(toks, i) == ParseOrRest(toks, ParseAnd(toks, i))

\* one expression, to the end of the tokens; a comma after it makes a tuple,
\* which is outside the model
WholeText(toks, r) ==
    IF r.st # "ok" THEN r
    ELSE IF r.i = Len(toks) + 1 THEN r
    ELSE IF IsOp(Tok(toks, r.i), ",") THEN PFail("unm")
    ELSE PFail("err")

\* the tokens as one expression, unless a token is outside Python or the model
ParseTokens(toks) ==
    IF \E k \in 1..Len(toks) : toks[k].k = "unm" THEN PFail("unm")
    ELSE IF \E k \in 1..Len(toks) : toks[k].k = "err" THEN PFail("err")
    ELSE IF toks = <<>> THEN PFail("err")
    ELSE WholeText(toks, ParseOr(toks, 1))

\* ast.parse(expr.strip()): one expression, to the end of the text
Parse(t) == ParseTokens(Tokenize(t, 1))

(***************************************************************************)
(* Evaluation of the tree.  The context is the only store of mutable       *)
(* objects: a value read from it carries ref, its path in the context      *)
(* (<<>> for a value the evaluation made), and list.append writes through  *)
(* that path.  calls lists the library functions and methods invoked.      *)
(***************************************************************************)
RECURSIVE DerefV(_, _)
DerefV(val, path) == IF path = <<>> THEN val ELSE DerefV(val.v[Head(path)], Tail(path))
Deref(ctx, path) == DerefV(ctx[Head(path)], Tail(path))

RECURSIVE UpdateV(_, _, _)
UpdateV(val, path, new) ==
    IF path = <<>> THEN new
    ELSE [val EXCEPT !.v = [val.v EXCEPT ![Head(path)] = UpdateV(val.v[Head(path)], Tail(path), new)]]
Update(ctx, path, new) == [ctx EXCEPT ![Head(path)] = UpdateV(ctx[Head(path)], Tail(path), new)]

RECURSIVE Repeat(_, _)
Repeat(s, n) == IF n <= 0 THEN <<>> ELSE s \o Repeat(s, n - 1)

IsScalar(val) == val.t \in {"none", "bool", "int", "float", "str"}

ER(st, val, ref, ctx, calls) == [st |-> st, val |-> val, ref |-> ref, ctx |-> ctx, calls |-> calls]
EFail(st, ctx, calls) == ER(st, NoneV, <<>>, ctx, calls)

ListMethods == {"clear", "copy", "count", "extend", "index", "insert", "pop", "remove", "reverse", "sort"}
DictMethods == {"clear", "copy", "fromkeys", "get", "items", "keys", "pop", "popitem",
                "setdefault", "update", "values"}

\* the operators + and * of Python on two values
BinOp(op, a, b) ==
    CASE op = "+" /\ IsNum(a) /\ IsNum(b) ->
           Ok(IF "float" \in {a.t, b.t} THEN FloatV(NumOf(a) + NumOf(b)) ELSE IntV(NumOf(a) + NumOf(b)))
      [] op = "+" /\ a.t = "str" /\ b.t = "str" -> Ok(StrV(a.v \o b.v))
      [] op = "+" /\ a.t = "list" /\ b.t = "list" -> Ok(ListV(a.v \o b.v))
      [] op = "*" /\ IsNum(a) /\ IsNum(b) ->
           Ok(IF "float" \in {a.t, b.t} THEN FloatV(NumOf(a) * NumOf(b)) ELSE IntV(NumOf(a) * NumOf(b)))
      [] op = "*" /\ a.t \in {"str", "list"} /\ _is_int(b) -> Ok([t |-> a.t, v |-> Repeat(a.v, NumOf(b))])
      [] op = "*" /\ _is_int(a) /\ b.t \in {"str", "list"} -> Ok([t |-> b.t, v |-> Repeat(b.v, NumOf(a))])
      [] OTHER -> Err

\* getattr(o, attr), then o[attr]: _eval_attribute after its name checks
GetAttr(o, oref, attr, ctx, calls) ==
    CASE o.t = "cmp" ->
           IF attr = "compare"
           THEN ER("ok", [t |-> "method", v |-> [name |-> "compare", self |-> o]], <<>>, ctx, calls)
           ELSE IF attr = "value" THEN ER("ok", o.v.ref, <<>>, ctx, calls)
           ELSE IF attr = "operator" THEN EFail("unm", ctx, calls)
           ELSE EFail("err", ctx, calls)
      [] o.t = "list" ->
           IF attr = "append"
           THEN ER("ok", [t |-> "method", v |-> [name |-> "append", self |-> o]], oref, ctx, calls)
           ELSE IF attr \in ListMethods THEN EFail("unm", ctx, calls)
           ELSE EFail("err", ctx, calls)
      [] o.t \in {"dict", "attrdict"} ->
           IF attr \in DictMethods THEN EFail("unm", ctx, calls)
           ELSE IF attr \notin DOMAIN o.v
                THEN EFail(IF o.t = "dict" THEN "err" ELSE "unm", ctx, calls)
           ELSE LET mref == IF oref = <<>> THEN <<>> ELSE Append(oref, attr)
                    m == IF mref = <<>> THEN o.v[attr] ELSE Deref(ctx, mref) IN
                IF m.t = "list" /\ \E k \in 1..Len(m.v) : ~IsScalar(m.v[k])
                THEN EFail("unm", ctx, calls)
                ELSE ER("ok", IF m.t = "dict" /\ o.t = "attrdict" THEN AttributeDict(m) ELSE m,
                        mref, ctx, calls)
      [] o.t = "none" -> EFail("err", ctx, calls)
      [] OTHER -> EFail("unm", ctx, calls)

\* the call m(*args) of the value m of an attribute; calls holds this call
\* already.  A value that is no method is not callable, and compare and
\* append take exactly one argument: a TypeError
CallMethod(m, mref, args, ctx, calls) ==
    IF m.t # "method" \/ Len(args) # 1 THEN EFail("err", ctx, calls)
    ELSE IF m.v.name = "compare"
    THEN LET r == compare(m.v.self, args[1]) IN
         IF r.ok THEN ER("ok", r.val, <<>>, ctx, calls)
         ELSE EFail("err", ctx, calls)
    ELSE IF ~IsScalar(args[1]) THEN EFail("unm", ctx, calls)
    ELSE ER("ok", NoneV, <<>>,
            IF mref = <<>> THEN ctx
            ELSE Update(ctx, mref, ListV(Append(Deref(ctx, mref).v, args[1]))),
            calls)

RECURSIVE Eval(_, _, _, _)
RECURSIVE EvalArgs(_, _, _, _, _, _)

\* the arguments of a call, left to right; val is the sequence of their values
EvalArgs(args, k, vals, names, ctx, calls) ==
    IF k > Len(args) THEN ER("ok", vals, <<>>, ctx, calls)
    ELSE LET r == Eval(args[k], names, ctx, calls) IN
         IF r.st # "ok" THEN EFail(r.st, r.ctx, r.calls)
         ELSE EvalArgs(args, k + 1, Append(vals, r.val), names, r.ctx, r.calls)

\* EvalWithCompoundTypes._eval with the given names and the evaluator's functions
Eval(node, names, ctx, calls) ==
    CASE node.n = "const" -> ER("ok", node.val, <<>>, ctx, calls)
      [] node.n = "name" ->
           IF node.id \in DOMAIN names
           THEN LET b == names[node.id] IN
                ER("ok", IF b.ref # <<>> /\ b.val.t # "attrdict" THEN Deref(ctx, b.ref) ELSE b.val,
                   b.ref, ctx, calls)
           ELSE IF node.id \in EvaluatorFunctions THEN ER("ok", FuncV(node.id), <<>>, ctx, calls)
           ELSE EFail("err", ctx, calls)
      [] node.n = "bin" ->
           LET a == Eval(node.l, names, ctx, calls) IN
           IF a.st # "ok" THEN a
           ELSE LET b == Eval(node.r, names, a.ctx, a.calls) IN
                IF b.st # "ok" THEN b
                ELSE LET r == BinOp(node.op, a.val, b.val) IN
                     IF r.ok THEN ER("ok", r.val, <<>>, b.ctx, b.calls)
                     ELSE EFail("err", b.ctx, b.calls)
      [] node.n = "bool" ->
           LET a == Eval(node.l, names, ctx, calls) IN
           IF a.st # "ok" THEN a
           ELSE IF (node.op = "and") = Truthy(a.val) THEN Eval(node.r, names, a.ctx, a.calls)
           ELSE a
      [] node.n = "attr" ->
           IF node.priv \/ node.attr \in {"format", "format_map", "mro"} THEN EFail("err", ctx, calls)
           ELSE LET o == Eval(node.obj, names, ctx, calls) IN
                IF o.st # "ok" THEN o
                ELSE GetAttr(o.val, o.ref, node.attr, o.ctx, o.calls)
      [] node.n = "call" ->
           IF node.f.n = "attr"
           THEN LET m == Eval(node.f, names, ctx, calls) IN
                IF m.st # "ok" THEN m
                ELSE LET a == EvalArgs(node.args, 1, <<>>, names, m.ctx, m.calls) IN
                     IF a.st # "ok" THEN a
                     ELSE CallMethod(m.val, m.ref, a.val, a.ctx,
                                     Append(a.calls, "." \o node.f.attr))
           ELSE IF node.f.n # "name" THEN EFail("err", ctx, calls)
           ELSE IF node.f.id \notin EvaluatorFunctions THEN EFail("err", ctx, calls)
           ELSE LET a == EvalArgs(node.args, 1, <<>>, names, ctx, calls) IN
                IF a.st # "ok" THEN a
                ELSE IF IF node.f.id \in CompoundTypes THEN ~ComputedCompound(node.f.id, a.val)
                        ELSE node.f.id \notin Computed
                THEN EFail("unm", a.ctx, Append(a.calls, node.f.id))
                ELSE LET r == IF node.f.id \in CompoundTypes THEN ApplyCompound(node.f.id, a.val)
                              ELSE Apply(node.f.id, a.val) IN
                     IF r.ok THEN ER("ok", r.val, <<>>, a.ctx, Append(a.calls, node.f.id))
                     ELSE EFail("err", a.ctx, Append(a.calls, node.f.id))

\* s.eval(updated_expr)
simple_eval(updated_expr, names, ctx) ==
    LET p == Parse(updated_expr) IN
    IF p.st # "ok" THEN EFail(p.st, ctx, <<>>)
    ELSE Eval(p.node, names, ctx, <<>>)

(***************************************************************************)
(* eval_expression as a state machine.  stack is the call stack of         *)
(* eval_expression: the last frame is the running call, the frames below   *)
(* wait at line 82 for the value of an interpolation site.                 *)
(***************************************************************************)
VARIABLES
    phase,            \* "idle" before the caller's call, "running", "done" after it
    expr_arg,         \* the caller's expr argument, a Python value
    context,          \* the caller's context: a function from names to values
    context0,         \* the context as it was when the caller called
    stack,            \* the frames of eval_expression
    result,           \* how the caller's call ended
    recursive_calls,  \* the calls made at line 82 since the caller's call
    evaluations,      \* the calls of s.eval (line 154) since the caller's call
    executed,         \* the functions and methods those evaluations invoked
    assertions        \* TRUE when the interpreter compiles assert statements (no -O)

vars == <<phase, expr_arg, context, context0, stack, result, recursive_calls, evaluations, executed,
          assertions>>

EmptyCtx == [n \in {} |-> NoneV]

\* how a call ends: kind is "value", "ColangValueError" or "AssertionError"
\* ("unmodelled" when the evaluation met Python the model does not cover)
NoOutcome == [kind |-> "none", val |-> NoneV, what |-> "", text |-> <<>>]
Returned(val) == [kind |-> "value", val |-> val, what |-> "", text |-> <<>>]
\* ColangValueError(f"Error evaluating inner expression: '{inner_expression}'") (what = "inner")
\* ColangValueError(f"Error evaluating '{expr}'") (what = "eval")
Raised(what, text) == [kind |-> "ColangValueError", val |-> NoneV, what |-> what, text |-> text]
AssertionFailed == [kind |-> "AssertionError", val |-> NoneV, what |-> "", text |-> <<>>]
Unmodelled == [kind |-> "unmodelled", val |-> NoneV, what |-> "", text |-> <<>>]

NewFrame(e) ==
    [ expr |-> e,                      \* the expr argument of this call
      pc |-> "entry",
      cur |-> IF e.t = "str" THEN e.v ELSE <<>>,   \* the local expr, a text
      matches |-> <<>>,                \* the literals of string_expressions_matches
      si |-> 1,                        \* the literal the outer loop is at
      string_expression_values |-> <<>>,
      inner_expressions |-> <<>>,
      ii |-> 1,                        \* the site the inner loop is at
      inner_expression_values |-> <<>>,
      var_names |-> <<>>,
      vi |-> 1,                        \* the name the resolver's loop is at
      updated_expr |-> <<>>,
      expr_locals |-> EmptyCtx,
      lookups |-> <<>>,                \* the names given to context.get, in order
      out |-> NoOutcome ]

Top == stack[Len(stack)]
SetTop(f) == [stack EXCEPT ![Len(stack)] = f]
Running(pcv) == phase = "running" /\ stack # <<>> /\ Top.pc = pcv

(***************************************************************************)
(* The pieces of eval_expression                                           *)
(***************************************************************************)
\* line 59: assert isinstance(expr, bool) or isinstance(expr, int)
AssertPasses(e) == IsInstance(e, "bool") \/ IsInstance(e, "int")

\* line 87: str(value).replace('"', '\\"').replace("'", "\\'")
EscapeQuotes(val) == Replace(Replace(to_text(val), <<DQ>>, <<BS, DQ>>), <<SQ>>, <<BS, SQ>>)

\* lines 94-96: .replace("{{", "{").replace("}}", "}")
CollapseBraces(s) == Replace(Replace(s, <<LB, LB>>, <<LB>>), <<RB, RB>>, <<RB>>)

\* lines 76-97 for one literal whose sites have the values vals
Interpolate(string_expression, vals) ==
    CollapseBraces(re_sub(string_expression, expression_pattern_spans(string_expression), vals))

\* line 110: re.sub(regex_pattern, r"var_\1", expr)
RenameVars(t) ==
    LET spans == regex_pattern_spans(t) IN
    re_sub(t, spans, [k \in 1..Len(spans) |-> <<"v", "a", "r", "_">> \o VarGroups(t, spans)[k]])

\* a handler that re-raises the site's own error
InnerFailureReraised(child_out, inner_expression) == child_out

\* lines 83-86: an exception of the recursive call is raised again as a
\* ColangValueError that names the inner expression
InnerFailure(child_out, inner_expression) == Raised("inner", inner_expression)

\* line 114 and 124: the evaluator's name of a variable
LocalName(var_name) == "var_" \o var_name

\* line 117: context.get(var_name, None)
ContextGet(ctx, var_name) == IF var_name \in DOMAIN ctx THEN ctx[var_name] ELSE NoneV

\* lines 121-122
Wrap(val) == IF val.t = "dict" THEN AttributeDict(val) ELSE val

\* line 124; ref is the place of the object in the context (Python binds the
\* object itself, not a copy of it)
Binding(ctx, var_name) ==
    [val |-> Wrap(ContextGet(ctx, var_name)),
     ref |-> IF var_name \in DOMAIN ctx THEN <<var_name>> ELSE <<>>]

\* a resolver without the check of lines 114-115
NeverComputed(expr_locals, var_name) == FALSE

\* line 114: if f"var_{var_name}" in expr_locals: continue
AlreadyComputed(expr_locals, var_name) == LocalName(var_name) \in DOMAIN expr_locals

(***************************************************************************)
(* The caller's inputs                                                     *)
(***************************************************************************)
\* integers and integer-valued floats run over 0..MaxNum
MaxNum == 3
\* the texts spliced into a literal have at most MaxValLen characters
MaxValLen == 2

Numbers == {IntV(n) : n \in 0..MaxNum} \cup {FloatV(n) : n \in 0..MaxNum}
ScalarVals == {NoneV, BoolV(TRUE), BoolV(FALSE), StrV(<<"a">>)} \cup Numbers

\* the characters of the spliced texts: a letter, the quotes, the backslash,
\* the braces and the sigil
ValChars == {"z", DQ, SQ, BS, LB, RB, SIGIL}
ValTexts == UNION {[1..m -> ValChars] : m \in 0..MaxValLen}

\* expression texts that exercise the library, the resolver and the preprocessor
GeneralExprs ==
    { <<"f","o","o","(","1",")">>,   \* foo(1)
      <<"l","e","n","(","\"","a","b","\"",")">>,   \* len("ab")
      <<"F","a","l","s","e"," ","a","n","d"," ","f","o","o","(","1",")">>,   \* False and foo(1)
      <<"T","r","u","e"," ","o","r"," ","f","o","o","(","1",")">>,   \* True or foo(1)
      <<"F","a","l","s","e"," ","o","r"," ","f","o","o","(","1",")">>,   \* False or foo(1)
      <<"l","i","s","t","(","\"","a","\"",")">>,   \* list("a")
      <<"l","i","s","t","(","$","l",")",".","a","p","p","e","n","d","(","1",")">>,   \* list($l).append(1)
      <<"l","e","n","(","d","i","c","t","(",")",")">>,   \* len(dict())
      <<"l","i","s","t","(","$","x",")">>,   \* list($x)
      <<"l","i","s","t">>,   \* list
      <<"f","o","o","(","1",")"," ","a","n","d"," ","F","a","l","s","e">>,   \* foo(1) and False
      <<"\"","{","f","o","o","(","1",")","}","\"">>,   \* "{foo(1)}"
      <<"$","f","(","1",")">>,   \* $f(1)
      <<"x">>,   \* x
      <<"v","a","r","_","x">>,   \* var_x
      <<"l","e","n">>,   \* len
      <<"$","x"," ","+"," ","$","x">>,   \* $x + $x
      <<"$","x"," ","+"," ","$","y">>,   \* $x + $y
      <<"$","x"," ","*"," ","$","y"," ","+"," ","$","x">>,   \* $x * $y + $x
      <<"$","m","i","s","s","i","n","g">>,   \* $missing
      <<"s","t","r","(","$","m","i","s","s","i","n","g",")">>,   \* str($missing)
      <<"$","d",".","n","a","m","e">>,   \* $d.name
      <<"$","l",".","a","p","p","e","n","d","(","1",")">>,   \* $l.append(1)
      <<"$","l",".","a","p","p","e","n","d","(",")">>,   \* $l.append()
      <<"$","d",".","n","a","m","e","(","1",")">>,   \* $d.name(1)
      <<"$","d",".","l",".","a","p","p","e","n","d","(","$","x",")">>,   \* $d.l.append($x)
      <<"f","o","o","(","$","l",".","a","p","p","e","n","d","(","1",")",")">>,   \* foo($l.append(1))
      <<"$","l",".","a","p","p","e","n","d","(","1",")"," ","+"," ","1">>,   \* $l.append(1) + 1
      <<"l","e","n","(","$","l",")">>,   \* len($l)
      <<"1"," ","+">>,   \* 1 +
      <<"1"," ","+"," ","\"","a","\"">>,   \* 1 + "a"
      <<"\"","{","1"," ","+","}"," ","{","2","}","\"">>,   \* "{1 +} {2}"
      <<"\"","{","2","}"," ","{","1"," ","+","}","\"">>,   \* "{2} {1 +}"
      <<>>,   \* (the empty text)
      <<"\"","a"," ","{","1","+","1","}"," ","b","\"">>,   \* "a {1+1} b"
      <<"\"","x"," ","{","\"","{","1","+","1","}","\"","}"," ","y","\"">>,   \* "x {"{1+1}"} y"
      <<"\"","x"," ","{","'","{","1","+","1","}","'","}"," ","y","\"">>,   \* "x {'{1+1}'} y"
      <<"\"","{","{","l","i","t","e","r","a","l","}","}","\"">>,   \* "{{literal}}"
      <<"\"","{","{","a","}","}"," ","{","1","}","\"">>,   \* "{{a}} {1}"
      <<"\"","{","$","x","}","\""," ","+"," ","s","t","r","(","$","x",")">>,   \* "{$x}" + str($x)
      <<"\"","p","a","y"," ","$","x","\"">>,   \* "pay $x"
      <<"\"","{","$","x","}","{","$","y","}","\""," ","+"," ","'","{","$","x","}","'">>,   \* "{$x}{$y}" + '{$x}'
      <<"L","E","S","S","_","T","H","A","N","(","5",")",".","c","o","m","p","a","r","e","(","3",")">>,   \* LESS_THAN(5).compare(3)
      <<"L","E","S","S","_","T","H","A","N","(","5",")",".","c","o","m","p","a","r","e","(","3",".","0",")">>,   \* LESS_THAN(5).compare(3.0)
      <<"L","E","S","S","_","T","H","A","N","(","5",")",".","c","o","m","p","a","r","e","(","T","r","u","e",")">>,   \* LESS_THAN(5).compare(True)
      <<"i","s","i","n","t","(","T","r","u","e",")">>,   \* isint(True)
      <<"e","s","c","a","p","e","(","\"","{","{","a","}","}","\"",")">>,   \* escape("{{a}}")
      <<"\"","a","\""," ","\"","b","\"">>,   \* "a" "b"
      <<"(","1"," ","+"," ","2",")"," ","*"," ","3">>,   \* (1 + 2) * 3
      <<"L","E","S","S","_","T","H","A","N","(","\"","a","\"",")">>   \* LESS_THAN("a")
    }
\* OP($r).compare($v) for the five comparison constructors
CompareExprs ==
    { <<"L","E","S","S","_","T","H","A","N","(","$","r",")",".","c","o","m","p","a","r","e","(","$","v",")">>,
      <<"E","Q","U","A","L","_","L","E","S","S","_","T","H","A","N","(","$","r",")",".","c","o","m","p","a","r","e","(","$","v",")">>,
      <<"G","R","E","A","T","E","R","_","T","H","A","N","(","$","r",")",".","c","o","m","p","a","r","e","(","$","v",")">>,
      <<"E","Q","U","A","L","_","G","R","E","A","T","E","R","_","T","H","A","N","(","$","r",")",".","c","o","m","p","a","r","e","(","$","v",")">>,
      <<"N","O","T","_","E","Q","U","A","L","_","T","O","(","$","r",")",".","c","o","m","p","a","r","e","(","$","v",")">> }
\* a literal with one interpolation site, in double and in single quotes
Templates ==
    { <<"\"","p","{","$","v","}","q","\"">>,   \* "p{$v}q"
      <<"'","p","{","$","v","}","q","'">>   \* 'p{$v}q'
    }
\* context values that end the literal they are spliced into
BreakoutTexts ==
    { <<"\\","\"","#">>,   \* \"#
      <<"\\","\"","*","2","#">>,   \* \"*2#
      <<"\\","\"","+","$","k","#">>   \* \"+$k#
    }

\* the context that binds name to the value in S, if any
Bind(name, S) == [n \in (IF S = {} THEN {} ELSE {name}) |-> CHOOSE val \in S : TRUE]

Objects ==
    "l" :> ListV(<<IntV(0)>>)
    @@ "d" :> DictV("name" :> StrV(<<"B","o","b">>) @@ "l" :> ListV(<<IntV(0)>>))
    @@ "f" :> FuncV("len")

GeneralContexts ==
    {EmptyCtx}
    \cup {Bind("x", {a}) @@ Bind("y", Y) @@ Objects :
             a \in {IntV(n) : n \in 0..MaxNum} \cup {StrV(<<"a">>)},
             Y \in {{}, {IntV(MaxNum)}, {StrV(<<"a">>)}}}

CompareContexts == {"r" :> a @@ "v" :> b : a \in ScalarVals, b \in ScalarVals}

SpliceContexts ==
    {"v" :> a @@ "k" :> StrV(<<"S">>) :
        a \in {StrV(t) : t \in ValTexts \cup BreakoutTexts} \cup ScalarVals
              \cup {ListV(<<IntV(0), IntV(1)>>)}}

\* the (expr, context) pairs the caller passes to eval_expression
Cases ==
    {[e |-> StrV(t), c |-> c] : t \in GeneralExprs, c \in GeneralContexts}
    \cup {[e |-> StrV(t), c |-> c] : t \in CompareExprs, c \in CompareContexts}
    \cup {[e |-> StrV(t), c |-> c] : t \in Templates, c \in SpliceContexts}
    \cup {[e |-> a, c |-> c] : a \in (ScalarVals \ {StrV(<<"a">>)}) \cup {ListV(<<IntV(0)>>)},
                               c \in {EmptyCtx, "x" :> IntV(0)}}

(***************************************************************************)
(* The steps                                                               *)
(***************************************************************************)
Init ==
    /\ phase = "idle"
    /\ expr_arg = NoneV
    /\ context = EmptyCtx
    /\ context0 = EmptyCtx
    /\ stack = <<>>
    /\ result = NoOutcome
    /\ recursive_calls = 0
    /\ evaluations = 0
    /\ executed = <<>>
    /\ assertions \in BOOLEAN

\* the caller calls eval_expression(expr, context)
Call ==
    /\ phase = "idle"
    /\ \E case \in Cases :
          /\ expr_arg' = case.e
          /\ context' = case.c
          /\ context0' = case.c
          /\ stack' = <<NewFrame(case.e)>>
    /\ phase' = "running"
    /\ UNCHANGED <<assertions, result, recursive_calls, evaluations, executed>>

\* lines 55-61: None and the non-string values return at once; the assert of
\* line 59 is a statement the interpreter leaves out when it runs with -O
Entry ==
    /\ Running("entry")
    /\ stack' = SetTop(
          IF Top.expr.t = "none" THEN [Top EXCEPT !.pc = "return", !.out = Returned(NoneV)]
          ELSE IF Top.expr.t # "str"
               THEN IF ~assertions \/ AssertPasses(Top.expr)
                    THEN [Top EXCEPT !.pc = "return", !.out = Returned(Top.expr)]
                    ELSE [Top EXCEPT !.pc = "return", !.out = AssertionFailed]
          ELSE [Top EXCEPT !.pc = "find_strings"])
    /\ UNCHANGED <<assertions, phase, expr_arg, context, context0, result, recursive_calls, evaluations, executed>>

\* lines 65-67
FindStrings ==
    /\ Running("find_strings")
    /\ stack' = SetTop([Top EXCEPT
                          !.matches = Matches(Top.cur, string_pattern_spans(Top.cur)),
                          !.si = 1,
                          !.string_expression_values = <<>>,
                          !.pc = "string_loop"])
    /\ UNCHANGED <<assertions, phase, expr_arg, context, context0, result, recursive_calls, evaluations, executed>>

\* lines 68-79 and 97: the next literal; one without sites is kept as it is
NextString ==
    /\ Running("string_loop")
    /\ Top.si <= Len(Top.matches)
    /\ LET string_expression == Top.matches[Top.si]
           inner == SiteGroups(string_expression, expression_pattern_spans(string_expression))
       IN  stack' = SetTop(
              IF inner = <<>>
              THEN [Top EXCEPT
                      !.inner_expressions = <<>>,
                      !.string_expression_values = Append(@, string_expression),
                      !.si = @ + 1]
              ELSE [Top EXCEPT
                      !.inner_expressions = inner,
                      !.ii = 1,
                      !.inner_expression_values = <<>>,
                      !.pc = "inner_loop"])
    /\ UNCHANGED <<assertions, phase, expr_arg, context, context0, result, recursive_calls, evaluations, executed>>

\* line 82: eval_expression(inner_expression, context)
Recurse ==
    /\ Running("inner_loop")
    /\ Top.ii <= Len(Top.inner_expressions)
    /\ stack' = Append(SetTop([Top EXCEPT !.pc = "await"]),
                       NewFrame(StrV(Top.inner_expressions[Top.ii])))
    /\ recursive_calls' = recursive_calls + 1
    /\ UNCHANGED <<assertions, phase, expr_arg, context, context0, result, evaluations, executed>>

\* lines 82-88: the recursive call returns or raises
Return ==
    /\ phase = "running"
    /\ Len(stack) >= 2
    /\ Top.pc = "return"
    /\ LET child == Top
           parent == stack[Len(stack) - 1]
           rest == SubSeq(stack, 1, Len(stack) - 2)
       IN  stack' = Append(rest,
              IF child.out.kind = "value"
              THEN [parent EXCEPT
                      !.inner_expression_values = Append(@, EscapeQuotes(child.out.val)),
                      !.ii = @ + 1,
                      !.pc = "inner_loop"]
              ELSE IF child.out.kind = "unmodelled"
              THEN [parent EXCEPT !.pc = "return", !.out = Unmodelled]
              ELSE [parent EXCEPT
                      !.pc = "return",
                      !.out = InnerFailure(child.out, parent.inner_expressions[parent.ii])])
    /\ UNCHANGED <<assertions, phase, expr_arg, context, context0, result, recursive_calls, evaluations, executed>>

\* lines 89-97: the sites of the literal are replaced, the doubled braces
\* collapsed; the replacement of line 91 pops the values, which leaves the list empty
Splice ==
    /\ Running("inner_loop")
    /\ Top.ii > Len(Top.inner_expressions)
    /\ stack' = SetTop([Top EXCEPT
                          !.string_expression_values =
                              Append(@, Interpolate(Top.matches[Top.si], Top.inner_expression_values)),
                          !.inner_expression_values = <<>>,
                          !.si = @ + 1,
                          !.pc = "string_loop"])
    /\ UNCHANGED <<assertions, phase, expr_arg, context, context0, result, recursive_calls, evaluations, executed>>

\* lines 98-103; the replacement of line 101 pops every value of the list
ReplaceStrings ==
    /\ Running("string_loop")
    /\ Top.si > Len(Top.matches)
    /\ stack' = SetTop([Top EXCEPT
                          !.cur = IF Top.string_expression_values # <<>>
                                  THEN re_sub(Top.cur, string_pattern_spans(Top.cur),
                                              Top.string_expression_values)
                                  ELSE Top.cur,
                          !.string_expression_values = <<>>,
                          !.pc = "find_vars"])
    /\ UNCHANGED <<assertions, phase, expr_arg, context, context0, result, recursive_calls, evaluations, executed>>

\* lines 107-110
FindVars ==
    /\ Running("find_vars")
    /\ stack' = SetTop([Top EXCEPT
                          !.expr_locals = EmptyCtx,
                          !.var_names = [k \in 1..Len(regex_pattern_spans(Top.cur)) |->
                                           Str(VarGroups(Top.cur, regex_pattern_spans(Top.cur))[k])],
                          !.updated_expr = RenameVars(Top.cur),
                          !.vi = 1,
                          !.pc = "var_loop"])
    /\ UNCHANGED <<assertions, phase, expr_arg, context, context0, result, recursive_calls, evaluations, executed>>

\* lines 112-124: one turn of the loop over var_names
ResolveVar ==
    /\ Running("var_loop")
    /\ Top.vi <= Len(Top.var_names)
    /\ LET var_name == Top.var_names[Top.vi] IN
       stack' = SetTop(
          IF AlreadyComputed(Top.expr_locals, var_name)
          THEN [Top EXCEPT !.vi = @ + 1]
          ELSE [Top EXCEPT
                  !.lookups = Append(@, var_name),
                  !.expr_locals = (LocalName(var_name) :> Binding(context, var_name)) @@ @,
                  !.vi = @ + 1])
    /\ UNCHANGED <<assertions, phase, expr_arg, context, context0, result, recursive_calls, evaluations, executed>>

\* lines 127-156: the evaluation; every exception becomes a ColangValueError
Evaluate ==
    /\ Running("var_loop")
    /\ Top.vi > Len(Top.var_names)
    /\ LET r == simple_eval(Top.updated_expr, Top.expr_locals, context) IN
       /\ stack' = SetTop([Top EXCEPT
                             !.pc = "return",
                             !.out = CASE r.st = "ok" -> Returned(r.val)
                                       [] r.st = "err" -> Raised("eval", Top.cur)
                                       [] OTHER -> Unmodelled])
       /\ context' = r.ctx
       /\ executed' = executed \o r.calls
    /\ evaluations' = evaluations + 1
    /\ UNCHANGED <<assertions, phase, expr_arg, context0, result, recursive_calls>>

\* the caller's call returns or raises
Finish ==
    /\ phase = "running"
    /\ Len(stack) = 1
    /\ Top.pc = "return"
    /\ result' = Top.out
    /\ stack' = <<>>
    /\ phase' = "done"
    /\ UNCHANGED <<assertions, expr_arg, context, context0, recursive_calls, evaluations, executed>>

Next ==
    \/ Call
    \/ Entry
    \/ FindStrings
    \/ NextString
    \/ Recurse
    \/ Return
    \/ Splice
    \/ ReplaceStrings
    \/ FindVars
    \/ ResolveVar
    \/ Evaluate
    \/ Finish

Spec == Init /\ [][Next]_vars

\* No reachable evaluation meets Python the model does not cover, and no
\* text holds a piece the model does not compute.
ModelDomain ==
    /\ result.kind # "unmodelled"
    /\ \A k \in 1..Len(stack) :
          /\ stack[k].out.kind # "unmodelled"
          /\ \A j \in 1..Len(stack[k].cur) : stack[k].cur[j] # UNK

(***************************************************************************)
(* The claims                                                              *)
(***************************************************************************)
Range(q) == {q[k] : k \in 1..Len(q)}
Frames == Range(stack)
TopLevel == IF stack = <<>> THEN {} ELSE {stack[1]}

\* the frame has run s.eval: it returned a value or raised at line 156
Evaluated(f) == f.expr.t = "str" /\ f.pc = "return" /\ f.out.what # "inner"

\* the frame is about to run s.eval: the resolver's loop is over
Resolved(f) == f.pc = "var_loop" /\ f.vi > Len(f.var_names)

\* the names a tree calls as functions
RECURSIVE CallNames(_)
RECURSIVE CallNamesOfArgs(_)
CallNamesOfArgs(args) ==
    IF args = <<>> THEN {} ELSE CallNames(Head(args)) \cup CallNamesOfArgs(Tail(args))
CallNames(node) ==
    CASE node.n \in {"bin", "bool"} -> CallNames(node.l) \cup CallNames(node.r)
      [] node.n = "attr" -> CallNames(node.obj)
      [] node.n = "call" ->
           (IF node.f.n = "name" THEN {node.f.id} ELSE CallNames(node.f))
           \cup CallNamesOfArgs(node.args)
      [] OTHER -> {}

\* the same, without the right operands of "and" and "or", which the
\* evaluation skips when the left operand decides
RECURSIVE StrictCallNames(_)
RECURSIVE StrictCallNamesOfArgs(_)
StrictCallNamesOfArgs(args) ==
    IF args = <<>> THEN {}
    ELSE StrictCallNames(Head(args)) \cup StrictCallNamesOfArgs(Tail(args))
StrictCallNames(node) ==
    CASE node.n = "bin" -> StrictCallNames(node.l) \cup StrictCallNames(node.r)
      [] node.n = "bool" -> StrictCallNames(node.l)
      [] node.n = "attr" -> StrictCallNames(node.obj)
      [] node.n = "call" ->
           (IF node.f.n = "name" THEN {node.f.id} ELSE StrictCallNames(node.f))
           \cup StrictCallNamesOfArgs(node.args)
      [] OTHER -> {}

\* the names a tree reads as values, outside the skipped operands
RECURSIVE StrictNames(_)
RECURSIVE StrictNamesOfArgs(_)
StrictNamesOfArgs(args) ==
    IF args = <<>> THEN {} ELSE StrictNames(Head(args)) \cup StrictNamesOfArgs(Tail(args))
StrictNames(node) ==
    CASE node.n = "name" -> {node.id}
      [] node.n = "bin" -> StrictNames(node.l) \cup StrictNames(node.r)
      [] node.n = "bool" -> StrictNames(node.l)
      [] node.n = "attr" -> StrictNames(node.obj)
      [] node.n = "call" ->
           (IF node.f.n = "name" THEN {} ELSE StrictNames(node.f))
           \cup StrictNamesOfArgs(node.args)
      [] OTHER -> {}

\* the 18 names the claim lists
Library18 ==
    {"len", "flow", "action", "regex", "search", "findall", "uid", "str", "escape",
     "isint", "isfloat", "isbool", "isstr", "LESS_THAN", "EQUAL_LESS_THAN",
     "GREATER_THAN", "EQUAL_GREATER_THAN", "NOT_EQUAL_TO"}

\* C1: the 18 library names are the boundary of what an expression can call
\* and read.  No name outside them that an expression calls is ever invoked
\* (executed lists the calls made); an expression with such a call fails with
\* a ColangValueError; and the names an evaluation that returns has read are
\* the var_ bindings and the library names.  The claim is read in its favour:
\* a call or a name in a right operand of "and" or "or", which the evaluation
\* may skip, is not required to fail.
C1_LibraryIsTheBoundary ==
    \A f \in Frames :
        (Evaluated(f) /\ Parse(f.updated_expr).st = "ok") =>
            LET node == Parse(f.updated_expr).node IN
            /\ (CallNames(node) \ Library18) \cap Range(executed) = {}
            /\ ~(StrictCallNames(node) \subseteq Library18) => f.out.kind = "ColangValueError"
            /\ f.out.kind = "value" =>
                  StrictNames(node) \subseteq DOMAIN f.expr_locals \cup Library18

\* the text is one quoted literal
OneLiteral(t) == string_pattern_spans(t) = <<[s |-> 1, e |-> Len(t)]>>

RECURSIVE StripDoubled(_)
\* the text without its doubled braces, taken from the left
StripDoubled(t) ==
    IF t = <<>> THEN <<>>
    ELSE IF StartsWithAt(t, 1, <<LB, LB>>) \/ StartsWithAt(t, 1, <<RB, RB>>)
         THEN StripDoubled(SubText(t, 3, Len(t)))
         ELSE <<t[1]>> \o StripDoubled(Tail(t))

HasBrace(t) == \E k \in 1..Len(t) : t[k] \in {LB, RB}

\* a literal with braces, every one of them part of a doubled brace
EscapedLiteral(t) == OneLiteral(t) /\ HasBrace(t) /\ ~HasBrace(StripDoubled(t))

\* C2: a quoted literal in which every brace is part of a doubled brace
\* evaluates to its text with each doubled brace collapsed to a single one,
\* and nothing between the doubled braces is evaluated.
C2_DoubledBracesCollapse ==
    (phase = "done" /\ expr_arg.t = "str" /\ EscapedLiteral(expr_arg.v)) =>
        /\ result = Returned(StrV(CollapseBraces(SubText(expr_arg.v, 2, Len(expr_arg.v) - 1))))
        /\ recursive_calls = 0

\* C3: compare fails whenever the concrete type of its argument differs from
\* the concrete type of the reference (a bool against an int, a float against
\* an int), and returns the operator's result when the two types are the same.
C3_StrictTypeCheck ==
    (phase = "done" /\ expr_arg.t = "str" /\ expr_arg.v \in CompareExprs
     /\ IsNum(context0["r"])) =>
        LET r == context0["r"]
            v == context0["v"]
            op == Str(SubText(expr_arg.v, 1, Len(expr_arg.v) - Len(<<"(","$","r",")",".","c","o","m","p","a","r","e","(","$","v",")">>)))
        IN  IF v.t # r.t THEN result.kind = "ColangValueError"
            ELSE result = Returned(BoolV(Operator(op, v, r)))

\* the work eval_expression does on a string: none of it was done
NoWork(f) ==
    /\ f.matches = <<>> /\ f.var_names = <<>> /\ f.lookups = <<>> /\ f.expr_locals = EmptyCtx
    /\ recursive_calls = 0 /\ evaluations = 0 /\ executed = <<>>

\* C4: a boolean, integer, float or null input is returned unchanged, with
\* no preprocessing, resolution or evaluation.
C4_NonStringReturned ==
    /\ (phase = "done" /\ expr_arg.t \in {"none", "bool", "int", "float"}) =>
          result = Returned(expr_arg)
    /\ \A f \in TopLevel :
          (f.expr.t \in {"none", "bool", "int", "float"} /\ f.pc = "return") => NoWork(f)

\* C5: a site whose text holds a quoted literal with a site of its own is
\* resolved innermost first: "x {"{1+1}"} y" evaluates to the string x 2 y.
C5_NestedInterpolation ==
    (phase = "done"
     /\ expr_arg = StrV(<<DQ,"x"," ",LB,DQ,LB,"1","+","1",RB,DQ,RB," ","y",DQ>>)) =>
        result = Returned(StrV(<<"x"," ","2"," ","y">>))

NoDuplicates(q) == \A i, j \in 1..Len(q) : q[i] = q[j] => i = j

\* what the claim says a name is bound to: the context's value (a dict as an
\* AttributeDict with the same items), None for a name the context lacks
BoundValue(ctx, n) ==
    IF n \notin DOMAIN ctx THEN [t |-> "none", v |-> 0]
    ELSE IF ctx[n].t = "dict" THEN [t |-> "attrdict", v |-> ctx[n].v]
    ELSE ctx[n]

\* C6: within one call the context is read once per distinct identifier, the
\* binding of var_<identifier> is the context's value, or None when the
\* context lacks the name, distinct identifiers get distinct evaluator names,
\* and "$x + $x" evaluates to twice the integer x.
C6_ResolvedOnce ==
    /\ \A f \in Frames :
          /\ NoDuplicates(f.lookups)
          /\ Resolved(f) =>
                /\ Range(f.lookups) = Range(f.var_names)
                /\ Cardinality(DOMAIN f.expr_locals) = Cardinality(Range(f.var_names))
                /\ \A n \in Range(f.var_names) :
                      /\ LocalName(n) \in DOMAIN f.expr_locals
                      /\ f.expr_locals[LocalName(n)].val = BoundValue(context, n)
    /\ (phase = "done" /\ expr_arg = StrV(<<SIGIL,"x"," ","+"," ",SIGIL,"x">>)
        /\ "x" \in DOMAIN context0 /\ context0["x"].t = "int") =>
           result = Returned(IntV(2 * context0["x"].v))

\* C6's case: "$x + $x" with x = 3 has returned 6
C6_Witness ==
    /\ phase = "done" /\ expr_arg = StrV(<<SIGIL,"x"," ","+"," ",SIGIL,"x">>)
    /\ "x" \in DOMAIN context0 /\ context0["x"] = IntV(3)
    /\ result = Returned(IntV(6))

SiteFree(f) == \A k \in 1..Len(f.matches) : expression_pattern_spans(f.matches[k]) = <<>>

C7_Outcomes ==
    /\ (phase = "done" /\ expr_arg.t = "str") => result.kind \in {"value", "ColangValueError"}
    /\ \A f \in Frames : (f.expr.t = "str" /\ f.pc = "return") =>
          /\ f.out.kind \in {"value", "ColangValueError"}
          /\ f.out.kind = "ColangValueError" =>
                /\ f.out.val = NoneV
                /\ f.out.what = "inner" => f.out.text = f.inner_expressions[f.ii]
                /\ f.out.what = "eval" => f.out.text = f.cur
                /\ (f.out.what = "eval" /\ SiteFree(f)) => f.out.text = f.expr.v

C7_InnerFailureStep ==
    (Len(stack) >= 2 /\ Top.pc = "return" /\ Top.out.kind # "value") =>
        /\ Len(stack') = Len(stack) - 1
        /\ stack'[Len(stack')].pc = "return"
        /\ stack'[Len(stack')].out = Raised("inner", Top.expr.v)

\* C7: a call on a string returns a value or fails with a ColangValueError
\* and no value; a failure of an interpolation site makes the enclosing call
\* fail at once with a ColangValueError that names the site's text; a failure
\* of the final evaluation is a ColangValueError that carries the expression
\* text (as it stands after the sites were spliced in).
C7_TypedFailure == [] C7_Outcomes /\ [][C7_InnerFailureStep]_vars

\* C7's case: an enclosing call has failed with the name of the failing site's text
C7_Witness == \E f \in Frames : f.pc = "return" /\ f.out.what = "inner"

\* C8: the call leaves the caller's context as it was.
C8_ContextUnchanged == context = context0

\* C9: a literal with one site evaluates to its prefix, the string form of
\* the site's value and its suffix, whatever characters that string form holds.
C9_SpliceIsSafe ==
    (phase = "done" /\ expr_arg.t = "str" /\ expr_arg.v \in Templates) =>
        result = Returned(StrV(<<"p">> \o to_text(context0["v"]) \o <<"q">>))

\* the recursion is one level deep and the text of a recursive call has no brace
RecursionBounded ==
    /\ Len(stack) <= 2
    /\ \A k \in 2..Len(stack) : ~HasBrace(stack[k].expr.v)

\* the final evaluation of a text that is one literal evaluates a constant
LiteralStaysLiteral ==
    \A f \in Frames :
        (Resolved(f) /\ OneLiteral(f.expr.v) /\ Parse(f.updated_expr).st = "ok")
        => Parse(f.updated_expr).node.n = "const"

\* C10: the recursion is at most one level below the caller's call, a
\* recursive call gets a text without braces, and a value read from the
\* context or produced by a site is spliced in without being evaluated as an
\* expression.
C10_ValuesNotReevaluated == RecursionBounded /\ LiteralStaysLiteral
====
